---------------------------- MODULE Spec2Model ----------------------------
(***************************************************************************)
(* Model of the hash-to-prime range-proof sub-protocol of cpsnarks-set:    *)
(*   src/src/parameters/mod.rs                   (security parameters)     *)
(*   src/src/protocols/hash_to_prime/snark_range.rs  (circuit, protocol)   *)
(*                                                                         *)
(* Three specifications share the variables:                               *)
(*   SpecParams   - the three constructors / validators of Parameters      *)
(*   SpecCircuit  - HashToPrimeCircuit::generate_constraints               *)
(*   Spec         - Protocol::setup / prove / verify over a channel        *)
(***************************************************************************)
EXTENDS Integers, Sequences, FiniteSets

VARIABLES
    overflow_checks, \* build flag: TRUE = integer overflow panics (debug),
                     \*             FALSE = integer overflow wraps (release)
    pc,              \* position of the caller
    p_call,          \* Parameters: the call made, [op, arg]
    p_ret,           \* Parameters: what the call produced
    c_in,            \* circuit: [required_bit_size, value]
    cs,              \* circuit: outcome of generate_constraints
    crs,             \* protocol: the CRS held by Protocol (after from_crs)
    setup_ret,       \* protocol: outcome of setup
    witness,         \* protocol: the Witness handed to prove
    prove_log,       \* protocol: the calls prove made, in order
    prove_ret,       \* protocol: outcome of prove
    channel,         \* protocol: proofs sent on the verifier channel
    tampered,        \* protocol: whether the proof in transit was altered
    statement,       \* protocol: the Statement handed to verify
    verify_ret       \* protocol: outcome of verify

vars == <<overflow_checks, pc, p_call, p_ret, c_in, cs, crs, setup_ret,
          witness, prove_log, prove_ret, channel, tampered, statement,
          verify_ret>>

paramVars   == <<p_call, p_ret>>
circuitVars == <<c_in, cs>>
protoVars   == <<crs, setup_ret, witness, prove_log, prove_ret, channel,
                 tampered, statement, verify_ret>>

None == [kind |-> "none"]

-----------------------------------------------------------------------------
(* Fixed-width unsigned arithmetic.  An operation whose mathematical result *)
(* leaves the type's range panics when overflow checks are compiled in and  *)
(* wraps otherwise; division by zero panics in every build.                 *)

U16Bits == 16
U16Mod  == 2 ^ U16Bits
U16Max  == U16Mod - 1

Panic == -1

WrapOrPanic(x) ==
    IF 0 <= x /\ x <= U16Max THEN x
    ELSE IF overflow_checks THEN Panic
    ELSE x % U16Mod

U16Add(a, b) == IF a = Panic \/ b = Panic THEN Panic ELSE WrapOrPanic(a + b)
U16Sub(a, b) == IF a = Panic \/ b = Panic THEN Panic ELSE WrapOrPanic(a - b)
U16Mul(a, b) == IF a = Panic \/ b = Panic THEN Panic ELSE WrapOrPanic(a * b)
U16Div(a, b) == IF a = Panic \/ b = Panic \/ b = 0 THEN Panic ELSE a \div b

-----------------------------------------------------------------------------
(* src/src/parameters/mod.rs                                                *)

Parameters(zk, snd, mu, nu) ==
    [security_zk |-> zk, security_soundness |-> snd,
     hash_to_prime_bits |-> mu, field_size_bits |-> nu]

\* is_valid with `<` in place of `<=`
is_valid_strict(p) ==
    LET d   == U16Add(1, U16Div(U16Add(U16Add(p.security_zk, p.security_soundness), 2),
                                p.hash_to_prime_bits))
        lhs == U16Add(U16Mul(d, p.hash_to_prime_bits), 2)
    IN  IF lhs = Panic THEN "panic"
        ELSE IF lhs < p.field_size_bits THEN "Ok"
        ELSE "InvalidParameters"

is_valid(p) ==
    LET d   == U16Add(1, U16Div(U16Add(U16Add(p.security_zk, p.security_soundness), 2),
                                p.hash_to_prime_bits))
        lhs == U16Add(U16Mul(d, p.hash_to_prime_bits), 2)
    IN  IF lhs = Panic THEN "panic"
        ELSE IF lhs <= p.field_size_bits THEN "Ok"
        ELSE "InvalidParameters"

\* The struct literal evaluates its fields in the order written; any panic
\* aborts the call before is_valid runs.
Construct(zk, snd, nu, mu, level) ==
    IF Panic \in {zk, snd, nu, mu} THEN [status |-> "panic"]
    ELSE LET p == Parameters(zk, snd, mu, nu)
             v == is_valid(p)
         IN  IF v = "Ok" THEN [status |-> "Ok", parameters |-> p, security_level |-> level]
             ELSE [status |-> v]

from_security_level(security_level) ==
    Construct(U16Sub(security_level, 3),
              U16Sub(security_level, 2),
              U16Mul(2, security_level),
              U16Sub(U16Mul(2, security_level), 2),
              security_level)

from_curve(field_size_bits) ==
    LET security_level == U16Div(field_size_bits, 2)
    IN  Construct(U16Sub(security_level, 3),
                  U16Sub(security_level, 2),
                  field_size_bits,
                  U16Sub(U16Mul(2, security_level), 2),
                  security_level)

\* Inputs.  from_security_level takes any u16.  from_curve takes the bit size
\* of a prime modulus, which is at least 2.  is_valid takes any Parameters
\* value (the fields are public); its inputs are sampled around both ends of
\* the u16 range and around the values the two constructors derive.
SampleSpan == 3
MinFieldBits == 2
Sample16 ==
    (0 .. SampleSpan) \cup (U16Max - SampleSpan .. U16Max) \cup {125, 126, 252, 254, 255, 256}

FromSecurityLevel ==
    /\ pc = "idle"
    /\ \E security_level \in 0 .. U16Max :
          /\ p_call' = [op |-> "from_security_level", arg |-> security_level]
          /\ p_ret'  = from_security_level(security_level)
    /\ pc' = "returned"
    /\ UNCHANGED <<overflow_checks, circuitVars, protoVars>>

FromCurve ==
    /\ pc = "idle"
    /\ \E field_size_bits \in MinFieldBits .. U16Max :
          /\ p_call' = [op |-> "from_curve", arg |-> field_size_bits]
          /\ p_ret'  = from_curve(field_size_bits)
    /\ pc' = "returned"
    /\ UNCHANGED <<overflow_checks, circuitVars, protoVars>>

IsValid ==
    /\ pc = "idle"
    /\ \E zk \in Sample16, snd \in Sample16, mu \in Sample16, nu \in Sample16 :
          /\ p_call' = [op |-> "is_valid", arg |-> Parameters(zk, snd, mu, nu)]
          /\ p_ret'  = [status |-> is_valid(Parameters(zk, snd, mu, nu))]
    /\ pc' = "returned"
    /\ UNCHANGED <<overflow_checks, circuitVars, protoVars>>

InitCommon ==
    /\ overflow_checks \in BOOLEAN
    /\ pc = "idle"
    /\ p_call = None /\ p_ret = None
    /\ c_in = None /\ cs = None
    /\ crs = None /\ setup_ret = None /\ witness = None
    /\ prove_log = <<>> /\ prove_ret = None
    /\ channel = <<>> /\ tampered = FALSE
    /\ statement = None /\ verify_ret = None

InitParams == InitCommon
NextParams == FromSecurityLevel \/ FromCurve \/ IsValid
SpecParams == InitParams /\ [][NextParams]_vars

-----------------------------------------------------------------------------
(* The validity inequality over the mathematical integers.                  *)

FloorDiv(a, b) == IF b > 0 THEN a \div b ELSE (0 - a) \div (0 - b)

MathHolds(zk, snd, mu, nu) ==
    /\ mu # 0
    /\ (1 + FloorDiv(zk + snd + 2, mu)) * mu + 2 <= nu

DerivedHolds(L) == MathHolds(L - 3, L - 2, 2 * L - 2, 2 * L)

Returned(op) == pc = "returned" /\ p_call.op = op

C5_CleanFailure ==
    (Returned("from_security_level") /\ (p_call.arg < 3 \/ 2 * p_call.arg > U16Max)) =>
        p_ret.status = "InvalidParameters"

\* C6: for every tuple of four u16 values, is_valid returns Ok exactly when
\* d*mu + 2 <= nu holds over the mathematical integers and InvalidParameters
\* otherwise (mu = 0 and overflowing intermediates included); no Parameters
\* value accepted by a constructor violates the inequality.
C6_ExactValidity ==
    /\ Returned("is_valid") =>
          LET p == p_call.arg
              holds == MathHolds(p.security_zk, p.security_soundness,
                                 p.hash_to_prime_bits, p.field_size_bits)
          IN  p_ret.status = IF holds THEN "Ok" ELSE "InvalidParameters"
    /\ (pc = "returned" /\ p_call.op \in {"from_security_level", "from_curve"}
           /\ p_ret.status = "Ok") =>
          MathHolds(p_ret.parameters.security_zk, p_ret.parameters.security_soundness,
                    p_ret.parameters.hash_to_prime_bits, p_ret.parameters.field_size_bits)

\* C7: for every field bit-length nu for which from_curve succeeds, it returns
\* the security level L = floor(nu/2) together with the Parameters
\* (L-3, L-2, 2L-2, nu), which pass is_valid.
C7_FromCurve ==
    (Returned("from_curve") /\ p_ret.status = "Ok") =>
        LET nu == p_call.arg
            L  == nu \div 2
        IN  /\ p_ret.security_level = L
            /\ p_ret.parameters = Parameters(L - 3, L - 2, 2 * L - 2, nu)
            /\ is_valid(p_ret.parameters) = "Ok"

-----------------------------------------------------------------------------
(* src/src/protocols/hash_to_prime/snark_range.rs : HashToPrimeCircuit      *)

\* The scalar field E::Fr is scaled down to the smallest prime that has
\* exactly ModulusBits bits.
ModulusBits == 5

IsPrime(n) == n >= 2 /\ \A d \in 2 .. (n - 1) : n % d # 0

FieldModulus ==
    CHOOSE q \in 2 ^ (ModulusBits - 1) .. 2 ^ ModulusBits - 1 :
        /\ IsPrime(q)
        /\ \A r \in 2 ^ (ModulusBits - 1) .. (q - 1) : ~IsPrime(r)

Fr == 0 .. FieldModulus - 1

\* E::Fr::size_in_bits()
size_in_bits == ModulusBits

\* Option::None in the circuit's `value` field (the circuit built by setup).
NoValue == -2

\* Big-endian bits of v, most significant first, n of them.
BitsBE(v, n) == [i \in 1 .. n |-> (v \div 2 ^ (n - i)) % 2]

RECURSIVE PackBE(_)
PackBE(bits) ==
    IF bits = <<>> THEN 0
    ELSE 2 * PackBE(SubSeq(bits, 1, Len(bits) - 1)) + bits[Len(bits)]

\* f.to_non_unique_bits_be(): size_in_bits() Boolean witnesses whose packing
\* is constrained to equal f in the field only; nothing constrains the packed
\* integer to lie below the modulus.  The prover's own assignment is the
\* canonical representative's bits.
to_non_unique_bits_be(value) ==
    [len     |-> size_in_bits,
     packsTo |-> value,
     assigned |-> IF value = NoValue THEN <<>> ELSE BitsBE(value, size_in_bits)]

\* A value that stands for usize::MAX - d + 1 (a subtraction that wrapped
\* below zero by d <= 65535): larger than the length of any Vec.
WrappedUsize == 2147483647

UsizeSub(a, b) ==
    IF a >= b THEN a - b
    ELSE IF overflow_checks THEN Panic
    ELSE WrappedUsize

\* enforce_equal on bits[i] (0-based, as in the source).
Enforce(i, b) == [index |-> i, equals |-> b]

\* generate_constraints without line 49: the leading zeros are enforced, the
\* one after them is not
generate_constraints_no_top_bit(required_bit_size, value) ==
    LET bits         == to_non_unique_bits_be(value)
        bits_to_skip == UsizeSub(size_in_bits, required_bit_size)
    IN  IF bits_to_skip = Panic \/ bits_to_skip > bits.len THEN [status |-> "panic"]
        ELSE [status   |-> "Ok",
              bits     |-> bits,
              enforced |-> [i \in 1 .. bits_to_skip |-> Enforce(i - 1, 0)]]

generate_constraints(required_bit_size, value) ==
    LET bits         == to_non_unique_bits_be(value)
        modulus_bits == size_in_bits
        bits_to_skip == UsizeSub(modulus_bits, required_bit_size)
    IN  IF bits_to_skip = Panic THEN [status |-> "panic"]         \* line 45, checked build
        ELSE IF bits_to_skip > bits.len THEN [status |-> "panic"] \* line 46, slice end
        ELSE IF bits_to_skip >= bits.len THEN [status |-> "panic"] \* line 49, index
        ELSE [status   |-> "Ok",
              bits     |-> bits,
              enforced |-> [i \in 1 .. bits_to_skip + 1 |->
                               IF i <= bits_to_skip THEN Enforce(i - 1, 0)
                               ELSE Enforce(bits_to_skip, 1)]]

\* Whether a Boolean assignment satisfies the constraint system.
SatisfiedBy(c, assignment) ==
    /\ Len(assignment) = c.bits.len
    /\ PackBE(assignment) % FieldModulus = c.bits.packsTo
    /\ \A j \in 1 .. Len(c.enforced) :
          assignment[c.enforced[j].index + 1] = c.enforced[j].equals

\* cs.is_satisfied(): the assignment the prover's synthesis produced.
is_satisfied(c) == c.status = "Ok" /\ c.bits.assigned # <<>> /\ SatisfiedBy(c, c.bits.assigned)

\* Some assignment of the bit witnesses satisfies the constraints.
Satisfiable(c) ==
    /\ c.status = "Ok"
    /\ \E assignment \in [1 .. c.bits.len -> {0, 1}] : SatisfiedBy(c, assignment)

InitCircuit ==
    /\ overflow_checks \in BOOLEAN
    /\ pc = "idle"
    /\ c_in \in [required_bit_size : 0 .. ModulusBits + 2, value : Fr \cup {NoValue}]
    /\ cs = None
    /\ p_call = None /\ p_ret = None
    /\ crs = None /\ setup_ret = None /\ witness = None
    /\ prove_log = <<>> /\ prove_ret = None
    /\ channel = <<>> /\ tampered = FALSE
    /\ statement = None /\ verify_ret = None

GenerateConstraints ==
    /\ pc = "idle"
    /\ cs' = generate_constraints(c_in.required_bit_size, c_in.value)
    /\ pc' = "returned"
    /\ UNCHANGED <<overflow_checks, c_in, paramVars, protoVars>>

NextCircuit == GenerateConstraints
SpecCircuit == InitCircuit /\ [][NextCircuit]_vars

InRange(f, k) == 2 ^ (k - 1) <= f /\ f < 2 ^ k

Synthesized == pc = "returned" /\ cs # None /\ c_in.value # NoValue

\* C3 (as claimed): for every required_bit_size k with 1 <= k <= modulus
\* bit-width and every field element f, the generated constraints are
\* satisfiable with input f if and only if f lies in [2^(k-1), 2^k).
C3_AsClaimed ==
    (Synthesized /\ 1 <= c_in.required_bit_size /\ c_in.required_bit_size <= size_in_bits) =>
        (Satisfiable(cs) <=> InRange(c_in.value, c_in.required_bit_size))

\* C3 (amended): for every k with 1 <= k <= modulus bit-width and every field
\* element f, the assignment the prover synthesizes (the canonical bits of f)
\* satisfies the constraints iff f lies in [2^(k-1), 2^k); for k strictly
\* below the modulus bit-width no other assignment exists, so satisfiability
\* is the same; for k equal to the modulus bit-width the constraints are also
\* satisfiable, by the bits of f + modulus, for every f < 2^k - modulus.
C3_RangeBelowWidth ==
    (Synthesized /\ 1 <= c_in.required_bit_size /\ c_in.required_bit_size <= size_in_bits) =>
        LET k == c_in.required_bit_size
            f == c_in.value
        IN  /\ is_satisfied(cs) <=> InRange(f, k)
            /\ k < size_in_bits => (Satisfiable(cs) <=> InRange(f, k))
            /\ k = size_in_bits =>
                  (Satisfiable(cs) <=> (InRange(f, k) \/ f + FieldModulus < 2 ^ k))

C3_Witness ==
    /\ Synthesized
    /\ c_in.required_bit_size = 4 /\ c_in.value = 12
    /\ is_satisfied(cs) /\ Satisfiable(cs)
    /\ Len(cs.enforced) = size_in_bits - 4 + 1

\* C9: when required_bit_size exceeds the modulus bit-width, or is 0,
\* generate_constraints returns an error value before any constraint is
\* added; it does not abort.
C9_ConfigurationError ==
    (pc = "returned" /\ cs # None
        /\ (c_in.required_bit_size > size_in_bits \/ c_in.required_bit_size = 0)) =>
        cs.status = "Err"

-----------------------------------------------------------------------------
(* Collaborators of the protocol: the group, the Pedersen commitment, the   *)
(* integer-to-field reduction, the commit-and-prove SNARK backend and the   *)
(* channel.  G1 has prime order FieldModulus; it is modelled as the         *)
(* additive group of integers modulo FieldModulus.                          *)

G1 == 0 .. FieldModulus - 1

GAdd(a, b)  == (a + b) % FieldModulus
GSub(a, b)  == (a + FieldModulus - b) % FieldModulus
GMul(p, k)  == (p * k) % FieldModulus

\* utils::integer_to_bigint_mod_q: the integer reduced into the scalar field,
\* or a conversion error.
integer_to_bigint_mod_q(n, fails) ==
    IF fails THEN [status |-> "Err"] ELSE [status |-> "Ok", value |-> n % FieldModulus]

\* PedersenCommitment::commit(value, randomness) = g^value * h^randomness
commit(ped, value, randomness) ==
    GAdd(GMul(ped.g, value % FieldModulus), GMul(ped.h, randomness % FieldModulus))

\* legogro16::generate_random_parameters: synthesizes the circuit (which may
\* abort) and returns a proving key that embeds the verifying key with the
\* link bases it was given.
generate_random_parameters(c, pedersen_bases) ==
    LET synth == generate_constraints(c.required_bit_size, c.value)
    IN  IF synth.status = "panic" THEN [status |-> "panic"]
        ELSE [status |-> "Ok",
              pk     |-> [required_bit_size |-> c.required_bit_size,
                          vk |-> [link_bases |-> pedersen_bases]]]

\* legogro16::create_random_proof: synthesizes the circuit with the witness.
\* link_d commits to the instance (1, value) and to link_v under the link
\* bases; the proof is valid exactly when the synthesized assignment
\* satisfies the constraints.  link_for is the link element the proof's link
\* argument was made for.
create_random_proof(c, link_v, pk, fails) ==
    LET synth  == generate_constraints(c.required_bit_size, c.value)
        bases  == pk.vk.link_bases
        link_d == GAdd(bases[1], GAdd(GMul(bases[2], c.value), GMul(bases[3], link_v)))
    IN  IF synth.status = "panic" THEN [status |-> "panic"]
        ELSE IF fails THEN [status |-> "Err"]
        ELSE [status |-> "Ok",
              proof  |-> [snark    |-> IF is_satisfied(synth) THEN "valid" ELSE "invalid",
                          link_d   |-> link_d,
                          link_for |-> link_d]]

\* legogro16::verify_proof: Err on a proof it cannot evaluate, otherwise
\* whether the pairing checks (the circuit's and the link's) hold.
verify_proof(vk, proof) ==
    IF proof.snark = "degenerate" THEN [status |-> "Err"]
    ELSE [status |-> "Ok",
          value  |-> proof.snark = "valid" /\ proof.link_d = proof.link_for]

\* ProverChannel::receive_proof
receive_proof(ch) ==
    IF ch = <<>> THEN [status |-> "Err"] ELSE [status |-> "Ok", proof |-> ch[Len(ch)]]

-----------------------------------------------------------------------------
(* src/src/protocols/hash_to_prime/snark_range.rs : Protocol                *)

HashToPrimeCircuit(k, v) == [required_bit_size |-> k, value |-> v]

setup(base_one, pedersen_commitment_parameters, parameters) ==
    LET c == HashToPrimeCircuit(parameters.hash_to_prime_bits, NoValue)
        pedersen_bases == <<base_one,
                            pedersen_commitment_parameters.g,
                            pedersen_commitment_parameters.h>>
    IN  generate_random_parameters(c, pedersen_bases)

Err(type, variant) == [status |-> "Err", type |-> type, error |-> variant]
Ok == [status |-> "Ok"]

\* prove that sends before it looks at the result of proof generation
prove_sends_first(c_r_s, w, fault) ==
    LET e == integer_to_bigint_mod_q(w.e, fault = "reduce_e")
        r == integer_to_bigint_mod_q(w.r_q, fault = "reduce_r_q")
    IN  IF e.status = "Err" THEN
            [ret |-> Err("ProofError", "From(ConversionError)"),
             log |-> <<"reduce_e">>, sent |-> <<>>]
        ELSE IF r.status = "Err" THEN
            [ret |-> Err("ProofError", "From(ConversionError)"),
             log |-> <<"reduce_e", "rand_v", "reduce_r_q">>, sent |-> <<>>]
        ELSE
            LET c == HashToPrimeCircuit(c_r_s.parameters.hash_to_prime_bits, e.value)
                made == create_random_proof(c, r.value, c_r_s.hash_to_prime_parameters,
                                            FALSE)
                failed == create_random_proof(c, r.value, c_r_s.hash_to_prime_parameters,
                                              fault = "create_random_proof")
            IN  IF made.status = "panic" THEN
                    [ret |-> [status |-> "panic"],
                     log |-> <<"reduce_e", "rand_v", "reduce_r_q", "create_random_proof">>,
                     sent |-> <<>>]
                ELSE IF failed.status = "Err" THEN
                    [ret |-> Err("ProofError", "From(SynthesisError)"),
                     log |-> <<"reduce_e", "rand_v", "reduce_r_q", "send_proof",
                               "create_random_proof">>,
                     sent |-> <<made.proof>>]
                ELSE
                    [ret |-> Ok,
                     log |-> <<"reduce_e", "rand_v", "reduce_r_q", "create_random_proof",
                               "send_proof">>,
                     sent |-> <<made.proof>>]

\* prove that passes no link randomness to the backend
prove_drops_randomness(c_r_s, w, fault) ==
    LET e == integer_to_bigint_mod_q(w.e, fault = "reduce_e")
    IN  IF e.status = "Err" THEN
            [ret |-> Err("ProofError", "From(ConversionError)"),
             log |-> <<"reduce_e">>, sent |-> <<>>]
        ELSE
            LET c == HashToPrimeCircuit(c_r_s.parameters.hash_to_prime_bits, e.value)
                made == create_random_proof(c, 0, c_r_s.hash_to_prime_parameters,
                                            fault = "create_random_proof")
            IN  IF made.status = "panic" THEN
                    [ret |-> [status |-> "panic"],
                     log |-> <<"reduce_e", "rand_v", "create_random_proof">>,
                     sent |-> <<>>]
                ELSE IF made.status = "Err" THEN
                    [ret |-> Err("ProofError", "From(SynthesisError)"),
                     log |-> <<"reduce_e", "rand_v", "create_random_proof">>,
                     sent |-> <<>>]
                ELSE IF fault = "send_proof" THEN
                    [ret |-> Err("ProofError", "From(ChannelError)"),
                     log |-> <<"reduce_e", "rand_v", "create_random_proof", "send_proof">>,
                     sent |-> <<>>]
                ELSE
                    [ret |-> Ok,
                     log |-> <<"reduce_e", "rand_v", "create_random_proof", "send_proof">>,
                     sent |-> <<made.proof>>]

\* The outcome of prove: what it returns, the calls it made in order, and the
\* proofs it put on the channel.  `fault` names the collaborator call that
\* fails in this run, if any.
prove(c_r_s, w, fault) ==
    LET e == integer_to_bigint_mod_q(w.e, fault = "reduce_e")               \* 103-105
        r == integer_to_bigint_mod_q(w.r_q, fault = "reduce_r_q")           \* 108
    IN  IF e.status = "Err" THEN
            [ret |-> Err("ProofError", "From(ConversionError)"),
             log |-> <<"reduce_e">>, sent |-> <<>>]
        ELSE IF r.status = "Err" THEN
            [ret |-> Err("ProofError", "From(ConversionError)"),
             log |-> <<"reduce_e", "rand_v", "reduce_r_q">>, sent |-> <<>>]
        ELSE
            LET c == HashToPrimeCircuit(c_r_s.parameters.hash_to_prime_bits, e.value)
                made == create_random_proof(c, r.value, c_r_s.hash_to_prime_parameters,
                                            fault = "create_random_proof")  \* 109-115
            IN  IF made.status = "panic" THEN
                    [ret |-> [status |-> "panic"],
                     log |-> <<"reduce_e", "rand_v", "reduce_r_q", "create_random_proof">>,
                     sent |-> <<>>]
                ELSE IF made.status = "Err" THEN
                    [ret |-> Err("ProofError", "From(SynthesisError)"),
                     log |-> <<"reduce_e", "rand_v", "reduce_r_q", "create_random_proof">>,
                     sent |-> <<>>]
                ELSE IF fault = "send_proof" THEN                           \* 116
                    [ret |-> Err("ProofError", "From(ChannelError)"),
                     log |-> <<"reduce_e", "rand_v", "reduce_r_q", "create_random_proof",
                               "send_proof">>,
                     sent |-> <<>>]
                ELSE
                    [ret |-> Ok,
                     log |-> <<"reduce_e", "rand_v", "reduce_r_q", "create_random_proof",
                               "send_proof">>,
                     sent |-> <<made.proof>>]

\* verify without the commitment-link check of lines 130-136
verify_snark_only(c_r_s, ch, stmt) ==
    LET received == receive_proof(ch)
    IN  IF received.status = "Err" THEN Err("VerificationError", "From(ChannelError)")
        ELSE
            LET checked == verify_proof(c_r_s.hash_to_prime_parameters.vk, received.proof)
            IN  IF checked.status = "Err" THEN
                    Err("VerificationError", "From(SynthesisError)")
                ELSE IF ~checked.value THEN Err("VerificationError", "VerificationFailed")
                ELSE Ok

verify(c_r_s, ch, stmt) ==
    LET received == receive_proof(ch)                                       \* 125
    IN  IF received.status = "Err" THEN Err("VerificationError", "From(ChannelError)")
        ELSE
            LET proof   == received.proof
                vk      == c_r_s.hash_to_prime_parameters.vk
                checked == verify_proof(vk, proof)                          \* 126-127
            IN  IF checked.status = "Err" THEN
                    Err("VerificationError", "From(SynthesisError)")        \* `?`
                ELSE IF ~checked.value THEN
                    Err("VerificationError", "VerificationFailed")          \* 128
                ELSE
                    LET proof_link_d_without_one == GSub(proof.link_d, vk.link_bases[1])
                    IN  IF stmt.c_e_q # proof_link_d_without_one THEN
                            Err("VerificationError", "VerificationFailed")  \* 135
                        ELSE Ok

-----------------------------------------------------------------------------
(* The protocol run: setup once, prove once, the proof possibly altered in  *)
(* transit, verify once.                                                    *)

MaxBase       == 2   \* the rng draws base_one from 0 .. MaxBase
MaxRandomness == 2   \* witness randomness r_q ranges over 0 .. MaxRandomness
MaxDelta      == 1   \* an altered link_d is moved by 1 .. MaxDelta

PedersenParameters == {[g |-> 1, h |-> 2], [g |-> 3, h |-> 5]}

\* Parameters handed to setup: the fields are public, so any tuple can be
\* passed; hash_to_prime_bits ranges from 0 to beyond the modulus width.
ProtocolParameters == {Parameters(0, 0, mu, mu + 2) : mu \in 0 .. ModulusBits + 1}

WitnessIntegers == 0 .. 2 ^ ModulusBits

Faults == {"none", "reduce_e", "reduce_r_q", "create_random_proof", "send_proof"}

Init == InitCommon

Setup ==
    /\ pc = "idle"
    /\ \E base_one \in 0 .. MaxBase, ped \in PedersenParameters,
          parameters \in ProtocolParameters :
          LET made == setup(base_one, ped, parameters)
          IN  /\ setup_ret' = [status |-> made.status]
              /\ IF made.status = "Ok"
                 THEN /\ crs' = [parameters |-> parameters,
                                 pedersen_commitment_parameters |-> ped,
                                 hash_to_prime_parameters |-> made.pk]
                      /\ pc' = "ready"
                 ELSE /\ crs' = crs
                      /\ pc' = "aborted"
    /\ UNCHANGED <<overflow_checks, paramVars, circuitVars, witness, prove_log,
                   prove_ret, channel, tampered, statement, verify_ret>>

Prove ==
    /\ pc = "ready"
    /\ \E e \in WitnessIntegers, r_q \in 0 .. MaxRandomness, fault \in Faults :
          LET out == prove(crs, [e |-> e, r_q |-> r_q], fault)
          IN  /\ witness'   = [e |-> e, r_q |-> r_q]
              /\ prove_ret' = out.ret
              /\ prove_log' = out.log
              /\ channel'   = channel \o out.sent
    /\ pc' = "proved"
    /\ UNCHANGED <<overflow_checks, paramVars, circuitVars, crs, setup_ret,
                   tampered, statement, verify_ret>>

\* The party carrying the proof alters its link component, or replaces the
\* proof by one the backend cannot evaluate.
Tamper ==
    /\ pc = "proved"
    /\ channel # <<>>
    /\ ~tampered
    /\ \/ \E delta \in 1 .. MaxDelta :
             channel' = [channel EXCEPT ![Len(channel)].link_d = GAdd(@, delta)]
       \/ channel' = [channel EXCEPT ![Len(channel)].snark = "degenerate"]
    /\ tampered' = TRUE
    /\ UNCHANGED <<overflow_checks, pc, paramVars, circuitVars, crs, setup_ret,
                   witness, prove_log, prove_ret, statement, verify_ret>>

Verify ==
    /\ pc = "proved"
    /\ \E c_e_q \in G1 :
          /\ statement'  = [c_e_q |-> c_e_q]
          /\ verify_ret' = verify(crs, channel, [c_e_q |-> c_e_q])
    /\ pc' = "verified"
    /\ UNCHANGED <<overflow_checks, paramVars, circuitVars, crs, setup_ret,
                   witness, prove_log, prove_ret, channel, tampered>>

Next == Setup \/ Prove \/ Tamper \/ Verify
Spec == Init /\ [][Next]_vars

-----------------------------------------------------------------------------
(* Claims about the protocol run.                                           *)

ReceivedProof == channel[Len(channel)]
LinkBase0     == crs.hash_to_prime_parameters.vk.link_bases[1]
Committed     == commit(crs.pedersen_commitment_parameters, witness.e, witness.r_q)
HasBits(e, k) == k >= 1 /\ 2 ^ (k - 1) <= e /\ e < 2 ^ k

\* C1: verify returns Ok only when the SNARK predicate returned true on the
\* proof it received and proof.link_d - link_bases[0] equals statement.c_e_q.
\* Hence a proof produced by prove for (e, r_q) is rejected against every
\* statement other than the commitment to (e, r_q), and so is a proof whose
\* link_d was altered.
C1_BothChecks ==
    pc = "verified" =>
        /\ verify_ret.status = "Ok" =>
              /\ channel # <<>>
              /\ ReceivedProof.snark = "valid"
              /\ ReceivedProof.link_d = ReceivedProof.link_for
              /\ GSub(ReceivedProof.link_d, LinkBase0) = statement.c_e_q
        /\ (prove_ret.status = "Ok" /\ ~tampered /\ statement.c_e_q # Committed) =>
              verify_ret.status = "Err"
        /\ (prove_ret.status = "Ok" /\ tampered
               /\ ReceivedProof.link_d # ReceivedProof.link_for) =>
              verify_ret.status = "Err"

C1_Witness ==
    /\ pc = "verified"
    /\ prove_ret.status = "Ok" /\ ~tampered
    /\ ReceivedProof.snark = "valid"
    /\ statement.c_e_q # Committed
    /\ verify_ret = Err("VerificationError", "VerificationFailed")

\* The case of the completeness claims: setup succeeded on parameters that
\* pass is_valid, prove sent its proof, the verifier received that same proof
\* and was given the commitment to the witness as its statement.
HonestRun ==
    /\ pc = "verified"
    /\ is_valid(crs.parameters) = "Ok"
    /\ prove_ret.status = "Ok"
    /\ ~tampered
    /\ statement.c_e_q = Committed

\* C2 (as claimed): in an honest run, for every witness integer e that has
\* exactly hash_to_prime_bits significant bits and every r_q, verify returns
\* Ok.
C2_AsClaimed ==
    (HonestRun /\ HasBits(witness.e, crs.parameters.hash_to_prime_bits)) =>
        verify_ret.status = "Ok"

\* C2 (amended): in an honest run, for every witness integer e that has
\* exactly hash_to_prime_bits significant bits and is smaller than the scalar
\* field modulus (every e of that size is, when hash_to_prime_bits is below
\* the modulus bit-width), and every r_q, verify returns Ok.
C2_CompleteBelowModulus ==
    /\ (HonestRun /\ HasBits(witness.e, crs.parameters.hash_to_prime_bits)
           /\ witness.e < FieldModulus) =>
          verify_ret.status = "Ok"
    /\ (HonestRun /\ HasBits(witness.e, crs.parameters.hash_to_prime_bits)
           /\ crs.parameters.hash_to_prime_bits < size_in_bits) =>
          witness.e < FieldModulus

C2_Witness ==
    /\ HonestRun
    /\ crs.parameters.hash_to_prime_bits = size_in_bits - 1
    /\ witness.e = 2 ^ crs.parameters.hash_to_prime_bits - 3
    /\ witness.r_q = MaxRandomness
    /\ verify_ret.status = "Ok"

\* C8: every way verify can reject a received proof yields the one error
\* value VerificationFailed.
C8_Undifferentiated ==
    (pc = "verified" /\ channel # <<>> /\ verify_ret.status = "Err") =>
        verify_ret.error = "VerificationFailed"

\* C10: a prove call that returns Ok has sent exactly one message, after both
\* witness reductions and proof generation; a prove call that fails returns a
\* ProofError and has sent nothing; prove leaves the CRS as it was.
C10_ProveSendsOnce ==
    [][ (pc = "ready" /\ pc' = "proved") =>
          /\ crs' = crs
          /\ prove_ret'.status \in {"Ok", "Err"}
          /\ prove_ret'.status = "Ok" =>
                /\ Len(channel') = Len(channel) + 1
                /\ SubSeq(channel', 1, Len(channel)) = channel
                /\ prove_log' = <<"reduce_e", "rand_v", "reduce_r_q",
                                  "create_random_proof", "send_proof">>
          /\ prove_ret'.status = "Err" =>
                /\ prove_ret'.type = "ProofError"
                /\ channel' = channel
                /\ prove_log'[Len(prove_log')] # "send_proof" =>
                       \A i \in 1 .. Len(prove_log') : prove_log'[i] # "send_proof"
    ]_vars

C10_Witness ==
    /\ pc = "proved"
    /\ prove_ret.status = "Ok"
    /\ Len(channel) = 1
    /\ prove_log[Len(prove_log)] = "send_proof"

=============================================================================
